---- MODULE Spec2Model ----
(***************************************************************************)
(* Model of nonebot_plugin_course_schedule/utils/html_image_generator.py:  *)
(* the HTMLImageGenerator singleton and its three coroutines               *)
(* generate_schedule_image, generate_user_schedule_image and               *)
(* generate_ranking_image.  A coroutine runs without interruption up to    *)
(* its single `await template_to_pic(...)`, is suspended there, and runs   *)
(* without interruption from the renderer's answer to its return or raise. *)
(*                                                                         *)
(* Python values are records tagged by the field t.  A Python str is       *)
(* [t |-> "str", v |-> <<chunk, ...>>], the sequence of its pieces, so     *)
(* that formatting is string concatenation.  TLA+ strings are ASCII here,  *)
(* the Chinese literals of the source are written in pinyin:               *)
(*   "shi jian wei zhi"  = "时间未知"     "jin ri"       = "今日"          *)
(*   "wu ke cheng xin xi" = "无课程信息"  "wei zhi di dian" = "未知地点"   *)
(*   "wei zhi jiao shi"  = "未知教师"     "de" = "的"  "ke cheng" = "课程" *)
(*   "zhou yi" .. "zhou ri" = "周一" .. "周日"       "jie" = "节"          *)
(***************************************************************************)
EXTENDS Integers, Sequences, FiniteSets, TLC

(***************************************************************************)
(* Bounds of the model.                                                    *)
(***************************************************************************)
\* number of render operations issued (and possibly in flight together)
MaxOps == 2
\* longest ranking list
MaxRank == 4
\* longest course list
MaxCourses == 2
\* number of one-hour steps of the wall clock
MaxTicks == 1

OpIds == 1..MaxOps

(***************************************************************************)
(* Python values.                                                          *)
(***************************************************************************)
None == [t |-> "none"]

Str(chunks) == [t |-> "str", v |-> chunks]

\* "".join of two str values
Cat(a, b) == Str(a.v \o b.v)

DateTime(y, mo, d, h, mi, s) ==
    [t |-> "datetime", year |-> y, month |-> mo, day |-> d,
     hour |-> h, minute |-> mi, second |-> s]

\* datetime.timedelta in its normalised form (0 <= seconds < 86400)
TimeDelta(d, s, us) ==
    [t |-> "timedelta", days |-> d, seconds |-> s, microseconds |-> us]

\* bool(value) as the `if` and `and` of the source evaluate it
Truthy(x) ==
    CASE x.t = "none" -> FALSE
      [] x.t = "str" -> x.v # <<>>
      [] OTHER -> TRUE

\* dict.get(key): None when the key is absent
DictGet(d, key) == IF key \in DOMAIN d THEN d[key] ELSE None

\* dict.get(key, default): the default only when the key is absent
DictGetDefault(d, key, default) == IF key \in DOMAIN d THEN d[key] ELSE default

(***************************************************************************)
(* Number formatting.                                                      *)
(***************************************************************************)
DigitChars == <<"0", "1", "2", "3", "4", "5", "6", "7", "8", "9">>

Digit(n) == DigitChars[n + 1]

RECURSIVE DecNat(_)
DecNat(n) == IF n < 10 THEN <<Digit(n)>>
             ELSE DecNat(n \div 10) \o <<Digit(n % 10)>>

\* str(n) and f"{n}" of an int
DecStr(n) == IF n < 0 THEN <<"-">> \o DecNat(-n) ELSE DecNat(n)

\* the two-digit fields %H %M %m %d of strftime
Pad2(n) == <<Digit((n \div 10) % 10), Digit(n % 10)>>

\* datetime.strftime('%H:%M')
StrfHM(dt) == Str(Pad2(dt.hour) \o <<":">> \o Pad2(dt.minute))

\* datetime.strftime("%m-%d ")
StrfMD(dt) == Str(Pad2(dt.month) \o <<"-">> \o Pad2(dt.day) \o <<" ">>)

\* date.strftime('%Y/%m/%d')
StrfYMD(dt) ==
    Str(DecNat(dt.year) \o <<"/">> \o Pad2(dt.month) \o <<"/">> \o Pad2(dt.day))

(***************************************************************************)
(* Calendar: date.weekday() is (date.toordinal() + 6) % 7.                 *)
(***************************************************************************)
IsLeap(y) == y % 4 = 0 /\ (y % 100 # 0 \/ y % 400 = 0)

DaysBeforeMonth == <<0, 31, 59, 90, 120, 151, 181, 212, 243, 273, 304, 334>>

DaysBeforeYear(y) ==
    (y - 1) * 365 + (y - 1) \div 4 - (y - 1) \div 100 + (y - 1) \div 400

Ymd2Ord(y, m, d) ==
    DaysBeforeYear(y) + DaysBeforeMonth[m]
      + (IF m > 2 /\ IsLeap(y) THEN 1 ELSE 0) + d

ToOrdinal(dt) == Ymd2Ord(dt.year, dt.month, dt.day)

OrdWeekday(ord) == (ord + 6) % 7

\* date.weekday(): Monday is 0
Weekday(dt) == OrdWeekday(ToOrdinal(dt))

\* the wall clock is a UTC reading [ord, hour]; timezone(timedelta(hours=8))
UtcOffsetHours == 8

\* datetime.now(timezone(timedelta(hours=8))): the reading moved to UTC+8
NowLocal(clk) ==
    [ord |-> clk.ord + (clk.hour + UtcOffsetHours) \div 24,
     hour |-> (clk.hour + UtcOffsetHours) % 24]

\* datetime.now(timezone(timedelta(hours=8))).weekday()
NowWeekday(clk) == OrdWeekday(NowLocal(clk).ord)

weeklist ==
    <<"zhou yi", "zhou er", "zhou san", "zhou si", "zhou wu", "zhou liu",
      "zhou ri">>

(***************************************************************************)
(* generate_user_schedule_image: title and course formatting.              *)
(***************************************************************************)
TIME_UNKNOWN == Str(<<"shi jian wei zhi">>)
NO_SUMMARY == Str(<<"wu ke cheng xin xi">>)
NO_LOCATION == Str(<<"wei zhi di dian">>)
NO_TEACHER == Str(<<"wei zhi jiao shi">>)
TODAY == Str(<<"jin ri">>)

\* day: str = date.strftime("%m-%d ") if date else "今日"
TitleDay(date) == IF Truthy(date) THEN StrfMD(date) ELSE TODAY

\* a variant that takes the weekday of the current date in every case
TitleWeekday_AlwaysNow(date, clk) == NowWeekday(clk)

\* weekday: int = date.weekday() if date else datetime.now(UTC+8).weekday()
TitleWeekday(date, clk) == IF Truthy(date) THEN Weekday(date) ELSE NowWeekday(clk)

\* title_lines = [f"{nickname}的", f"{day}课程（{weeklist[weekday]}）"]
TitleLines(nickname, date, clk) ==
    << Cat(nickname, Str(<<"de">>)),
       Str(TitleDay(date).v
             \o <<"ke cheng", "(", weeklist[TitleWeekday(date, clk) + 1], ")">>) >>

\* a variant that writes the end before the start
TimeStr_EndFirst(course) ==
    LET start_time == DictGet(course, "start_time")
        end_time == DictGet(course, "end_time")
    IN  IF Truthy(start_time) /\ Truthy(end_time)
        THEN Str(StrfHM(end_time).v \o <<" - ">> \o StrfHM(start_time).v)
        ELSE TIME_UNKNOWN

\* time_str of one course
TimeStr(course) ==
    LET start_time == DictGet(course, "start_time")
        end_time == DictGet(course, "end_time")
    IN  IF Truthy(start_time) /\ Truthy(end_time)
        THEN Str(StrfHM(start_time).v \o <<" - ">> \o StrfHM(end_time).v)
        ELSE TIME_UNKNOWN

\* detail_lines = [summary, location, teacher]
DetailLines(course) ==
    LET summary == DictGetDefault(course, "summary", NO_SUMMARY)
        location == DictGetDefault(course, "location", NO_LOCATION)
        teacher == DictGetDefault(course, "description", NO_TEACHER)
    IN  <<summary, location, teacher>>

\* the body of `for course in courses`
FormatCourse(course) ==
    [time_str |-> TimeStr(course), detail_lines |-> DetailLines(course)]

FormatCourses(courses) ==
    [i \in 1..Len(courses) |-> FormatCourse(courses[i])]

\* generate_time: the UTC+8 reading of the clock at the call
GenerateTime(clk) == NowLocal(clk)

UserTemplateData(courses, nickname, date, clk) ==
    [title_lines |-> TitleLines(nickname, date, clk),
     courses |-> FormatCourses(courses),
     generate_time |-> GenerateTime(clk)]

(***************************************************************************)
(* generate_ranking_image: entry formatting.                               *)
(***************************************************************************)
RankingKeys == {"total_duration", "course_count", "user_id", "nickname"}

\* a variant that compares the 0-based index where the rank is meant
RankClass_FromIndex(rank) ==
    IF rank - 1 = 1 THEN "first"
    ELSE IF rank - 1 = 2 THEN "second"
    ELSE IF rank - 1 = 3 THEN "third"
    ELSE "other"

\* rank_class of a rank
RankClass(rank) ==
    IF rank = 1 THEN "first"
    ELSE IF rank = 2 THEN "second"
    ELSE IF rank = 3 THEN "third"
    ELSE "other"

\* timedelta.total_seconds() is whole + microseconds / 10^6 with
\* 0 <= microseconds < 10^6, so its floor is the whole part
TotalSecondsFloor(td) == td.days * 86400 + td.seconds

\* hours = int(total_seconds // 3600)
Hours(td) == TotalSecondsFloor(td) \div 3600

\* a variant that rounds the minutes up where the source truncates
Minutes_RoundedUp(td) == ((TotalSecondsFloor(td) % 3600) + 59) \div 60

\* minutes = int((total_seconds % 3600) // 60)
Minutes(td) == (TotalSecondsFloor(td) % 3600) \div 60

\* duration_str = f"{hours}h {minutes}m"
DurationStr(td) ==
    Str(DecStr(Hours(td)) \o <<"h", " ">> \o DecStr(Minutes(td)) \o <<"m">>)

\* count_str = f"{data['course_count']} 节"
CountStr(n) == Str(DecStr(n) \o <<" ", "jie">>)

\* avatar_url = f"https://q1.qlogo.cn/g?b=qq&nk={data['user_id']}&s=100"
AvatarUrl(user_id) ==
    Str(<<"https://q1.qlogo.cn/g?b=qq&nk=">> \o DecStr(user_id) \o <<"&s=100">>)

\* the body of `for i, data in enumerate(ranking_data)`, i counted from 0
FormatRankingEntry(i, data) ==
    LET rank == i + 1
    IN  [row_index |-> i,
         rank |-> Str(DecStr(rank)),
         rank_class |-> RankClass(rank),
         avatar_url |-> AvatarUrl(data["user_id"]),
         nickname |-> data["nickname"],
         duration_str |-> DurationStr(data["total_duration"]),
         count_str |-> CountStr(data["course_count"])]

FormatRanking(ranking_data) ==
    [k \in 1..Len(ranking_data) |-> FormatRankingEntry(k - 1, ranking_data[k])]

\* a variant that also reads the keys of a first entry that is not there
RankingKeyError_NeedsFirst(ranking_data) ==
    \/ Len(ranking_data) = 0
    \/ \E k \in 1..Len(ranking_data) : ~(RankingKeys \subseteq DOMAIN ranking_data[k])

\* data[...] raises KeyError at the first entry that lacks a key
RankingKeyError(ranking_data) ==
    \E k \in 1..Len(ranking_data) : ~(RankingKeys \subseteq DOMAIN ranking_data[k])

\* date_range = f"{start:%Y/%m/%d} - {end:%Y/%m/%d}"
DateRange(start_date, end_date) ==
    Str(StrfYMD(start_date).v \o <<" - ">> \o StrfYMD(end_date).v)

RankingTemplateData(ranking_data, start_date, end_date) ==
    [date_range |-> DateRange(start_date, end_date),
     ranking_data |-> FormatRanking(ranking_data)]

(***************************************************************************)
(* State.                                                                  *)
(***************************************************************************)
VARIABLES
    ops,     \* ops[o]: the o-th call of a coroutine of image_generator
    files,   \* the temporary directory: name -> [data, closed]
    log,     \* what logger.error has received, oldest first
    clock,   \* the wall clock, a UTC reading [ord, hour]
    ticks    \* how often the clock has advanced

vars == <<ops, files, log, clock, ticks>>

\* a coroutine that has not been called yet
IdleOp ==
    [name |-> "none", pc |-> "idle", args |-> None, request |-> None,
     calls |-> 0, resp |-> None, result |-> None, exc |-> None, trace |-> <<>>]

\* the names tempfile may draw: as many as there are operations
TempNames == 1..MaxOps

\* a variant that draws a name without regard to the files that exist
FreshNames_AnyName(fs) == TempNames

\* NamedTemporaryFile opens with O_EXCL: the name drawn is not in use
FreshNames(fs) == TempNames \ DOMAIN fs

\* temp_file.name for suffix=".png"
TempPath(n) == Str(<<"/tmp/tmp", n, ".png">>)

(***************************************************************************)
(* Exceptions.  `except Exception` catches the subclasses of Exception;    *)
(* asyncio.CancelledError derives from BaseException only.                 *)
(***************************************************************************)
ExceptionSubclasses == {"KeyError", "OSError", "TemplateNotFound", "RuntimeError"}

\* what template_to_pic may raise
RendererErrors == {"TemplateNotFound", "RuntimeError"}

Exc(cls) == [t |-> "exc", cls |-> cls]

IsException(e) == e.cls \in ExceptionSubclasses

\* the text before ": {e}" in the logger.error call of each coroutine
LogPrefix(name) ==
    CASE name = "generate_schedule_image" -> "sheng cheng qun ke cheng biao tu pian shi bai"
      [] name = "generate_user_schedule_image" -> "sheng cheng yong hu ke cheng biao tu pian shi bai"
      [] name = "generate_ranking_image" -> "sheng cheng pai hang bang tu pian shi bai"

\* the events of `except Exception as e: logger.error(...); raise`
HandlerTrace(e) == IF IsException(e) THEN <<"log", "raise">> ELSE <<"raise">>

\* a variant whose handler lacks the logger.error call
HandlerLog_Silent(lg, o, rec, e) == lg

\* the log after exception e left the try block of operation rec
HandlerLog(lg, o, rec, e) ==
    IF IsException(e)
    THEN Append(lg, [by |-> o, msg |-> <<LogPrefix(rec.name), ": ", e.cls>>])
    ELSE lg

\* a variant whose handler lacks the `raise`: the coroutine returns None
Raised_Swallowed(rec, e) ==
    [rec EXCEPT !.pc = "returned", !.trace = @ \o HandlerTrace(e) \o <<"return">>]

\* operation rec ends with exception e
Raised(rec, e) ==
    [rec EXCEPT !.pc = "raised", !.exc = e, !.trace = @ \o HandlerTrace(e)]

\* exception e leaves the try block of operation o, whose record is rec
Fail(o, rec, e) ==
    /\ ops' = [ops EXCEPT ![o] = Raised(rec, e)]
    /\ log' = HandlerLog(log, o, rec, e)

(***************************************************************************)
(* The renderer call and the start of each coroutine.                      *)
(***************************************************************************)
\* await template_to_pic(template_path, template_name, templates, ...)
Request(template_name, templates, max_width, device_height) ==
    [t |-> "request", template_name |-> template_name, templates |-> templates,
     max_width |-> max_width, device_height |-> device_height]

\* operation o may be called: it is the next call not yet made
Callable(o) ==
    /\ ops[o].pc = "idle"
    /\ \A q \in OpIds : q < o => ops[q].pc # "idle"

\* the operation is suspended at its await
Suspend(o, name, args, request) ==
    /\ ops' = [ops EXCEPT ![o] =
                 [IdleOp EXCEPT !.name = name, !.pc = "awaiting", !.args = args,
                                !.request = request, !.calls = 1,
                                !.trace = <<"render">>]]
    /\ UNCHANGED log

generate_schedule_image(o, courses) ==
    /\ Callable(o)
    /\ Suspend(o, "generate_schedule_image", [courses |-> courses],
               Request("group_schedule.html", [courses |-> courses], 1200, 800))
    /\ UNCHANGED <<files, clock, ticks>>

generate_user_schedule_image(o, courses, nickname, date) ==
    /\ Callable(o)
    /\ Suspend(o, "generate_user_schedule_image",
               [courses |-> courses, nickname |-> nickname, date |-> date,
                now |-> clock],
               Request("user_schedule.html",
                       UserTemplateData(courses, nickname, date, clock), 1000, 600))
    /\ UNCHANGED <<files, clock, ticks>>

generate_ranking_image(o, ranking_data, start_date, end_date) ==
    /\ Callable(o)
    /\ LET args == [ranking_data |-> ranking_data, start_date |-> start_date,
                    end_date |-> end_date]
       IN  IF RankingKeyError(ranking_data)
           THEN Fail(o, [IdleOp EXCEPT !.name = "generate_ranking_image",
                                       !.args = args], Exc("KeyError"))
           ELSE Suspend(o, "generate_ranking_image", args,
                        Request("ranking.html",
                                RankingTemplateData(ranking_data, start_date, end_date),
                                1200, 800))
    /\ UNCHANGED <<files, clock, ticks>>

(***************************************************************************)
(* The renderer's answer and the rest of each coroutine.                   *)
(***************************************************************************)
\* the PNG bytes the renderer produces for a request
Render(request) == [t |-> "bytes", png |-> request]

\* the bytes temp_file.write puts into the file
Written(img_data) == img_data

\* template_to_pic returns; the file is created, written, closed; return temp_path
RendererReturns(o) ==
    /\ ops[o].pc = "awaiting"
    /\ \E n \in FreshNames(files) :
         LET img_data == Render(ops[o].request)
         IN  /\ files' = (n :> [data |-> Written(img_data), closed |-> TRUE]) @@ files
             /\ ops' = [ops EXCEPT ![o] =
                          [@ EXCEPT !.pc = "returned", !.resp = img_data,
                                    !.result = TempPath(n),
                                    !.trace = @ \o <<"return">>]]
    /\ UNCHANGED <<log, clock, ticks>>

\* template_to_pic returns; NamedTemporaryFile raises OSError, no file exists
TempFileFails(o) ==
    /\ ops[o].pc = "awaiting"
    /\ Fail(o, [ops[o] EXCEPT !.resp = Render(ops[o].request)], Exc("OSError"))
    /\ UNCHANGED <<files, clock, ticks>>

\* template_to_pic returns; the file is created (delete=False), write raises
WriteFails(o) ==
    /\ ops[o].pc = "awaiting"
    /\ \E n \in FreshNames(files) :
         files' = (n :> [data |-> None, closed |-> FALSE]) @@ files
    /\ Fail(o, [ops[o] EXCEPT !.resp = Render(ops[o].request)], Exc("OSError"))
    /\ UNCHANGED <<clock, ticks>>

\* template_to_pic raises
RendererRaises(o, cls) ==
    /\ ops[o].pc = "awaiting"
    /\ Fail(o, [ops[o] EXCEPT !.resp = Exc(cls)], Exc(cls))
    /\ UNCHANGED <<files, clock, ticks>>

\* the caller cancels the task while it is suspended at the await
Cancelled(o) ==
    /\ ops[o].pc = "awaiting"
    /\ Fail(o, ops[o], Exc("CancelledError"))
    /\ UNCHANGED <<files, clock, ticks>>

\* an hour passes
Tick ==
    /\ ticks < MaxTicks
    /\ ticks' = ticks + 1
    /\ clock' = [ord |-> clock.ord + (clock.hour + 1) \div 24,
                 hour |-> (clock.hour + 1) % 24]
    /\ UNCHANGED <<ops, files, log>>

(***************************************************************************)
(* Inputs.                                                                 *)
(***************************************************************************)
\* a key that a dict does not have
Absent == [t |-> "absent"]

\* the dict holding the keys of assign whose value is not Absent
MkDict(assign) ==
    [k \in {j \in DOMAIN assign : assign[j] # Absent} |-> assign[k]]

\* the sequences over S of length at most n
SeqUpTo(S, n) == UNION {[1..m -> S] : m \in 0..n}

T_START == DateTime(2025, 1, 1, 8, 0, 0)
T_END == DateTime(2025, 1, 1, 9, 35, 59)

FullCourse ==
    [summary |-> Str(<<"Math">>), location |-> Str(<<"Room 101">>),
     description |-> Str(<<"Dr. Li">>), start_time |-> T_START, end_time |-> T_END]

\* courses whose times are absent, None or set
TimeVariants ==
    {MkDict([FullCourse EXCEPT !.start_time = s, !.end_time = e]) :
       s \in {Absent, None, T_START}, e \in {Absent, None, T_END}}

\* courses one of whose detail fields is absent, None, empty or set
DetailVariants ==
    {MkDict([FullCourse EXCEPT ![k] = x]) :
       k \in {"summary", "location", "description"},
       x \in {Absent, None, Str(<<>>), Str(<<"Art">>)}}

CourseSamples == TimeVariants \cup DetailVariants \cup {MkDict([FullCourse EXCEPT !.summary = Absent, !.location = Absent, !.description = Absent, !.start_time = Absent, !.end_time = Absent])}

Nicknames == {Str(<<"Alice">>), Str(<<"Bob">>)}

\* reference dates: a week across a year's end, and a leap day
RefDates ==
    {DateTime(2024, 12, d, 0, 0, 0) : d \in 29..31}
      \cup {DateTime(2025, 1, d, 10, 30, 0) : d \in 1..4}
      \cup {DateTime(2024, 2, 29, 0, 0, 0), DateTime(2024, 3, 1, 0, 0, 0)}

\* the clock starts at 2024-12-31 15:00 UTC, which is 23:00 in UTC+8
ClockStart == [ord |-> Ymd2Ord(2024, 12, 31), hour |-> 15]

\* inputs of generate_user_schedule_image: course lists, and titles
UserInputs ==
    {[courses |-> cs, nickname |-> Str(<<"Alice">>), date |-> None] :
        cs \in SeqUpTo(CourseSamples, MaxCourses)}
      \cup {[courses |-> <<FullCourse>>, nickname |-> n, date |-> d] :
              n \in Nicknames, d \in RefDates \cup {None}}

RankingUsers ==
    {[user_id |-> 123456, nickname |-> Str(<<"Alice">>), course_count |-> 12],
     [user_id |-> 42, nickname |-> Str(<<"Bob">>), course_count |-> 0]}

\* 0s, 3661s, 25h 1m 1s, and one microsecond short of an hour
Durations ==
    {TimeDelta(0, 0, 0), TimeDelta(0, 3661, 0), TimeDelta(1, 3661, 0),
     TimeDelta(0, 3599, 999999)}

RankingEntries ==
    {[user_id |-> u.user_id, nickname |-> u.nickname,
      course_count |-> u.course_count, total_duration |-> d] :
        u \in RankingUsers, d \in Durations}

D_START == DateTime(2024, 12, 2, 0, 0, 0)
D_END == DateTime(2025, 1, 5, 0, 0, 0)

\* a ranking entry that lacks total_duration
BrokenEntry == [user_id |-> 7, nickname |-> Str(<<"Eve">>), course_count |-> 1]

RankingInputs == SeqUpTo(RankingEntries, MaxRank) \cup {<<BrokenEntry>>}

\* the small inputs of the operations that run side by side
SmallCourseLists == {<<>>, <<FullCourse>>}
SmallRankings == {<<>>, <<BrokenEntry>>}

(***************************************************************************)
(* Specifications.                                                         *)
(***************************************************************************)
Init ==
    /\ ops = [o \in OpIds |-> IdleOp]
    /\ files = << >>
    /\ log = << >>
    /\ clock = ClockStart
    /\ ticks = 0

CallSchedule ==
    \E o \in OpIds, cs \in SmallCourseLists : generate_schedule_image(o, cs)

CallUser ==
    \E o \in OpIds : generate_user_schedule_image(o, << >>, Str(<<"Alice">>), None)

CallRanking ==
    \E o \in OpIds, rd \in SmallRankings : generate_ranking_image(o, rd, D_START, D_END)

Returns == \E o \in OpIds : RendererReturns(o)
TempFails == \E o \in OpIds : TempFileFails(o)
WriteFail == \E o \in OpIds : WriteFails(o)
Raises == \E o \in OpIds, cls \in RendererErrors : RendererRaises(o, cls)
Cancel == \E o \in OpIds : Cancelled(o)

\* several operations side by side on the shared image_generator
Next ==
    \/ CallSchedule
    \/ CallUser
    \/ CallRanking
    \/ Returns
    \/ TempFails
    \/ WriteFail
    \/ Raises
    \/ Cancel
    \/ Tick

Spec == Init /\ [][Next]_vars

\* one generate_user_schedule_image call over the rich inputs
CallUserRich ==
    /\ Callable(1)
    /\ \E i \in UserInputs :
          generate_user_schedule_image(1, i.courses, i.nickname, i.date)

NextUser ==
    \/ CallUserRich
    \/ Returns
    \/ TempFails
    \/ WriteFail
    \/ Raises
    \/ Cancel
    \/ Tick

SpecUser == Init /\ [][NextUser]_vars

\* one generate_ranking_image call over the rich inputs
CallRankingRich ==
    /\ Callable(1)
    /\ \E rd \in RankingInputs : generate_ranking_image(1, rd, D_START, D_END)

NextRanking ==
    \/ CallRankingRich
    \/ Returns
    \/ TempFails
    \/ WriteFail
    \/ Raises
    \/ Cancel

SpecRanking == Init /\ [][NextRanking]_vars

(***************************************************************************)
(* Reading formatted text back.                                            *)
(***************************************************************************)
IsDigit(c) == \E d \in 0..9 : DigitChars[d + 1] = c

DigitValue(c) == CHOOSE d \in 0..9 : DigitChars[d + 1] = c

IsNumeral(cs) == Len(cs) > 0 /\ \A i \in 1..Len(cs) : IsDigit(cs[i])

RECURSIVE NumeralValue(_)
NumeralValue(cs) ==
    IF Len(cs) = 0 THEN 0
    ELSE 10 * NumeralValue(SubSeq(cs, 1, Len(cs) - 1)) + DigitValue(cs[Len(cs)])

\* the operations that handed a request to the renderer
Handed(o, name) == ops[o].name = name /\ ops[o].request # None

(***************************************************************************)
(* C1: every ranking list of length N handed to the renderer is formatted  *)
(* into N entries; entry i (from 0) carries the nickname of input entry i  *)
(* and rank i + 1, with rank class first, second, third for ranks 1, 2, 3  *)
(* and other for every rank from 4 on.                                     *)
(***************************************************************************)
ClaimedRankClass(rank) ==
    CASE rank = 1 -> "first" [] rank = 2 -> "second" [] rank = 3 -> "third"
      [] rank >= 4 -> "other"

C1_RanksInInputOrder ==
    \A o \in OpIds : Handed(o, "generate_ranking_image") =>
        LET rd == ops[o].args.ranking_data
            out == ops[o].request.templates.ranking_data
        IN  /\ Len(out) = Len(rd)
            /\ \A k \in 1..Len(rd) :
                 /\ out[k].nickname = rd[k].nickname
                 /\ out[k].row_index = k - 1
                 /\ IsNumeral(out[k].rank.v)
                 /\ NumeralValue(out[k].rank.v) = k
                 /\ out[k].rank_class = ClaimedRankClass(k)

\* a list of at least four entries, two nicknames among them, was handed over
C1_Witness ==
    \E o \in OpIds :
        /\ Handed(o, "generate_ranking_image")
        /\ Len(ops[o].request.templates.ranking_data) >= 4
        /\ ops[o].request.templates.ranking_data[4].rank_class = "other"
        /\ ops[o].args.ranking_data[1].nickname # ops[o].args.ranking_data[2].nickname

(***************************************************************************)
(* C6: a total_duration of s whole seconds, s >= 0, is formatted as        *)
(* "{H}h {M}m" with 0 <= M <= 59 and 3600*H + 60*M <= s < 3600*H + 60*M    *)
(* + 60 (seconds dropped, hours not capped); 3661 seconds give "1h 1m".    *)
(***************************************************************************)
\* the position of the "h" of a duration string, 0 if there is none
HPos(v) == IF \E i \in 1..Len(v) : v[i] = "h"
           THEN CHOOSE i \in 1..Len(v) : v[i] = "h" ELSE 0

WholeSeconds(td) == td.days * 86400 + td.seconds

DurationAsClaimed(td, v) ==
    LET s == WholeSeconds(td)
        h == HPos(v)
        hs == SubSeq(v, 1, h - 1)
        ms == SubSeq(v, h + 2, Len(v) - 1)
    IN  /\ h > 1 /\ Len(v) >= h + 3
        /\ v[h + 1] = " " /\ v[Len(v)] = "m"
        /\ IsNumeral(hs) /\ IsNumeral(ms)
        /\ LET H == NumeralValue(hs)
               M == NumeralValue(ms)
           IN  /\ H = s \div 3600
               /\ M = (s % 3600) \div 60
               /\ 0 <= M /\ M <= 59
               /\ 3600 * H + 60 * M <= s
               /\ s < 3600 * H + 60 * M + 60
        /\ (s = 3661 => v = <<"1", "h", " ", "1", "m">>)

C6_DurationTruncated ==
    \A o \in OpIds : Handed(o, "generate_ranking_image") =>
        LET rd == ops[o].args.ranking_data
            out == ops[o].request.templates.ranking_data
        IN  \A k \in 1..Len(rd) :
              LET td == rd[k].total_duration
              IN  (td.microseconds = 0 /\ WholeSeconds(td) >= 0)
                    => DurationAsClaimed(td, out[k].duration_str.v)

\* 3661 seconds and more than 24 hours were both formatted
C6_Witness ==
    \E o \in OpIds :
        /\ Handed(o, "generate_ranking_image")
        /\ \E k \in 1..Len(ops[o].args.ranking_data) :
             /\ WholeSeconds(ops[o].args.ranking_data[k].total_duration) = 3661
             /\ ops[o].request.templates.ranking_data[k].duration_str.v
                  = <<"1", "h", " ", "1", "m">>
        /\ \E k \in 1..Len(ops[o].args.ranking_data) :
             /\ WholeSeconds(ops[o].args.ranking_data[k].total_duration) > 86400
             /\ ops[o].request.templates.ranking_data[k].duration_str.v
                  = <<"2", "5", "h", " ", "1", "m">>

(***************************************************************************)
(* C4: a course whose start_time or end_time is absent or None gets the    *)
(* time string "时间未知" and the operation does not fail; a course with    *)
(* both gets "HH:MM - HH:MM", start first; the formatted list has the      *)
(* input's length and order.                                               *)
(***************************************************************************)
Unset(course, key) == key \notin DOMAIN course \/ course[key] = None

\* the two digits at positions i, i + 1 of v read as a number
TwoDigits(v, i) == 10 * DigitValue(v[i]) + DigitValue(v[i + 1])

TimeRangeOf(v, start_time, end_time) ==
    /\ Len(v) = 11
    /\ \A i \in {1, 2, 4, 5, 7, 8, 10, 11} : IsDigit(v[i])
    /\ v[3] = ":" /\ v[6] = " - " /\ v[9] = ":"
    /\ TwoDigits(v, 1) = start_time.hour /\ TwoDigits(v, 4) = start_time.minute
    /\ TwoDigits(v, 7) = end_time.hour /\ TwoDigits(v, 10) = end_time.minute

C4_TimeStr ==
    \A o \in OpIds : ops[o].name = "generate_user_schedule_image" =>
        /\ ops[o].request # None
        /\ LET cs == ops[o].args.courses
               out == ops[o].request.templates.courses
           IN  /\ Len(out) = Len(cs)
               /\ \A k \in 1..Len(cs) :
                    IF Unset(cs[k], "start_time") \/ Unset(cs[k], "end_time")
                    THEN out[k].time_str = Str(<<"shi jian wei zhi">>)
                    ELSE TimeRangeOf(out[k].time_str.v, cs[k]["start_time"],
                                     cs[k]["end_time"])

\* a list with a course lacking a time after a course having both
C4_Witness ==
    \E o \in OpIds :
        /\ Handed(o, "generate_user_schedule_image")
        /\ Len(ops[o].args.courses) >= 2
        /\ ~Unset(ops[o].args.courses[1], "start_time")
        /\ ~Unset(ops[o].args.courses[1], "end_time")
        /\ ops[o].request.templates.courses[1].time_str.v
             = <<"0", "8", ":", "0", "0", " - ", "0", "9", ":", "3", "5">>
        /\ "start_time" \in DOMAIN ops[o].args.courses[2]
        /\ ops[o].args.courses[2]["start_time"] = None
        /\ ops[o].request.templates.courses[2].time_str = TIME_UNKNOWN

(***************************************************************************)
(* C5: the detail block has the three lines summary, location, teacher,    *)
(* and a line whose field is missing or unset (key absent, or present      *)
(* with an empty or null value) is its placeholder, never a null value.    *)
(***************************************************************************)
MissingOrUnset(course, key) == key \notin DOMAIN course \/ ~Truthy(course[key])

DetailKeys == <<"summary", "location", "description">>

DetailPlaceholders ==
    <<Str(<<"wu ke cheng xin xi">>), Str(<<"wei zhi di dian">>),
      Str(<<"wei zhi jiao shi">>)>>

C5_DetailPlaceholders ==
    \A o \in OpIds : Handed(o, "generate_user_schedule_image") =>
        LET cs == ops[o].args.courses
            out == ops[o].request.templates.courses
        IN  \A k \in 1..Len(cs) :
              /\ Len(out[k].detail_lines) = 3
              /\ \A i \in 1..3 :
                   /\ out[k].detail_lines[i] # None
                   /\ MissingOrUnset(cs[k], DetailKeys[i])
                        => out[k].detail_lines[i] = DetailPlaceholders[i]

(***************************************************************************)
(* C7: the title is two lines, the first "{nickname}的"; without a         *)
(* reference date the second line has "今日" and the weekday of the        *)
(* current date in UTC+8, with one it has the date as "MM-DD " and the     *)
(* weekday of that date; the weekday name is entry date.weekday() of the   *)
(* table 周一..周日, Monday first.                                          *)
(***************************************************************************)
\* the calendar: weekday of each date the model uses, Monday = 0
CalendarWeekday(y, m, d) ==
    CASE y = 2024 /\ m = 12 /\ d = 29 -> 6
      [] y = 2024 /\ m = 12 /\ d = 30 -> 0
      [] y = 2024 /\ m = 12 /\ d = 31 -> 1
      [] y = 2025 /\ m = 1 /\ d = 1 -> 2
      [] y = 2025 /\ m = 1 /\ d = 2 -> 3
      [] y = 2025 /\ m = 1 /\ d = 3 -> 4
      [] y = 2025 /\ m = 1 /\ d = 4 -> 5
      [] y = 2024 /\ m = 2 /\ d = 29 -> 3
      [] y = 2024 /\ m = 3 /\ d = 1 -> 4

ChineseWeekdays ==
    <<"zhou yi", "zhou er", "zhou san", "zhou si", "zhou wu", "zhou liu",
      "zhou ri">>

\* the clock reads 2024-12-31 15:00 UTC plus whole hours: in UTC+8 the date
\* is Tuesday 2024-12-31 before 16:00 UTC and Wednesday 2025-01-01 after
CurrentWeekdayUtc8(now) ==
    IF now.ord = 739251 /\ now.hour < 16 THEN 1 ELSE 2

C7_Title ==
    \A o \in OpIds : Handed(o, "generate_user_schedule_image") =>
        LET a == ops[o].args
            lines == ops[o].request.templates.title_lines
        IN  /\ Len(lines) = 2
            /\ lines[1].v = a.nickname.v \o <<"de">>
            /\ Len(lines[2].v) >= 4
            /\ LET n == Len(lines[2].v)
                   name == lines[2].v[n - 1]
                   day == SubSeq(lines[2].v, 1, n - 4)
               IN  /\ SubSeq(lines[2].v, n - 3, n - 2) = <<"ke cheng", "(">>
                   /\ lines[2].v[n] = ")"
                   /\ \E w \in 0..6 : name = ChineseWeekdays[w + 1]
                   /\ IF a.date = None
                      THEN /\ day = <<"jin ri">>
                           /\ name = ChineseWeekdays[CurrentWeekdayUtc8(a.now) + 1]
                      ELSE /\ Len(day) = 6
                           /\ IsDigit(day[1]) /\ IsDigit(day[2])
                           /\ IsDigit(day[4]) /\ IsDigit(day[5])
                           /\ TwoDigits(day, 1) = a.date.month
                           /\ day[3] = "-"
                           /\ TwoDigits(day, 4) = a.date.day
                           /\ day[6] = " "
                           /\ name = ChineseWeekdays[
                                CalendarWeekday(a.date.year, a.date.month,
                                                a.date.day) + 1]

\* a title for a reference date whose weekday is not the current one, and a
\* title without reference date made after the UTC+8 date changed
C7_Witness ==
    \E o \in OpIds :
        /\ Handed(o, "generate_user_schedule_image")
        /\ ops[o].args.date # None
        /\ ops[o].args.date.day = 29 /\ ops[o].args.date.month = 12
        /\ ops[o].args.now.hour >= 16
        /\ ops[o].request.templates.title_lines[2].v
             = <<"1", "2", "-", "2", "9", " ", "ke cheng", "(", "zhou ri", ")">>

(***************************************************************************)
(* Outcomes of the operations.                                             *)
(***************************************************************************)
Started(o) == ops[o].name # "none"

\* the renderer call of operation o was answered with an exception
RendererFailed(o) == ops[o].resp.t = "exc"

\* the temporary file name inside a path
PathName(path) == path.v[2]

\* the paths returned to callers
ReturnedNames ==
    {PathName(ops[o].result) : o \in {q \in OpIds : ops[q].pc = "returned"}}

\* the input list of an operation
InputList(o) ==
    IF ops[o].name = "generate_ranking_image" THEN ops[o].args.ranking_data
    ELSE ops[o].args.courses

\* the entry sequence in the request of an operation
RequestEntries(o) ==
    IF ops[o].name = "generate_ranking_image"
    THEN ops[o].request.templates.ranking_data
    ELSE ops[o].request.templates.courses

(***************************************************************************)
(* C2 as stated: when the renderer fails, the operation ends in a failure  *)
(* of kind RenderError and the caller receives no path.                    *)
(***************************************************************************)
C2_AsStated ==
    \A o \in OpIds : RendererFailed(o) =>
        /\ ops[o].pc = "raised"
        /\ ops[o].exc # None
        /\ ops[o].exc.cls = "RenderError"
        /\ ops[o].result = None

(***************************************************************************)
(* C2 amended: when the renderer fails, the operation ends by raising the  *)
(* renderer's own exception, unchanged and unwrapped, and the caller       *)
(* receives no path.                                                       *)
(***************************************************************************)
C2_RendererFailurePropagates ==
    \A o \in OpIds : RendererFailed(o) =>
        /\ ops[o].pc = "raised"
        /\ ops[o].exc = ops[o].resp
        /\ ops[o].result = None

\* the renderer has failed in two operations, with different exceptions
C2_Witness ==
    /\ \E o \in OpIds : RendererFailed(o) /\ ops[o].exc.cls = "TemplateNotFound"
    /\ \E o \in OpIds : RendererFailed(o) /\ ops[o].exc.cls = "RuntimeError"

(***************************************************************************)
(* C3 as stated: the renderer is invoked at most once per operation, and   *)
(* every failure raised inside an operation is logged and then propagated; *)
(* no operation succeeds after its renderer call failed.                   *)
(***************************************************************************)
RenderEvents(o) == {i \in 1..Len(ops[o].trace) : ops[o].trace[i] = "render"}

LoggedThenRaised(o) ==
    LET tr == ops[o].trace
    IN  /\ Len(tr) >= 2
        /\ tr[Len(tr) - 1] = "log"
        /\ tr[Len(tr)] = "raise"
        /\ \E i \in 1..Len(log) : log[i].by = o /\ log[i].msg[3] = ops[o].exc.cls

AtMostOneRenderCall(o) ==
    /\ ops[o].calls <= 1
    /\ Cardinality(RenderEvents(o)) = ops[o].calls
    /\ RendererFailed(o) => ops[o].pc = "raised"

C3_AsStated ==
    \A o \in OpIds :
        /\ AtMostOneRenderCall(o)
        /\ ops[o].pc = "raised" => LoggedThenRaised(o)

(***************************************************************************)
(* C3 amended: the renderer is invoked at most once per operation; every   *)
(* failure that is an Exception is logged and then propagated, and no      *)
(* operation succeeds after its renderer call failed; a BaseException      *)
(* that is no Exception (the CancelledError of a task cancelled at the     *)
(* await) propagates without a log entry.                                  *)
(***************************************************************************)
C3_LogThenPropagate ==
    \A o \in OpIds :
        /\ AtMostOneRenderCall(o)
        /\ ops[o].pc = "raised" =>
             /\ ops[o].exc # None
             /\ ops[o].result = None
             /\ IF ops[o].exc.cls = "CancelledError"
                THEN /\ ops[o].trace[Len(ops[o].trace)] = "raise"
                     /\ \A i \in 1..Len(log) : log[i].by # o
                ELSE LoggedThenRaised(o)

\* a renderer failure and a formatting failure were both logged and raised
C3_Witness ==
    /\ \E o \in OpIds : RendererFailed(o) /\ LoggedThenRaised(o)
    /\ \E o \in OpIds : ops[o].pc = "raised" /\ ops[o].calls = 0 /\ LoggedThenRaised(o)

(***************************************************************************)
(* C8: operations in flight together do not affect each other: template    *)
(* data come from the operation's own arguments, a successful operation    *)
(* returns the path of the file holding the bytes of its own render call,  *)
(* no two operations return the same path, and a step of one operation     *)
(* changes nothing of another.                                             *)
(***************************************************************************)
OwnTemplates(o) ==
    LET a == ops[o].args
    IN  CASE ops[o].name = "generate_schedule_image" -> [courses |-> a.courses]
          [] ops[o].name = "generate_user_schedule_image" ->
               UserTemplateData(a.courses, a.nickname, a.date, a.now)
          [] ops[o].name = "generate_ranking_image" ->
               RankingTemplateData(a.ranking_data, a.start_date, a.end_date)

Independent ==
    /\ \A o \in OpIds : ops[o].request # None =>
         ops[o].request.templates = OwnTemplates(o)
    /\ \A o \in OpIds : ops[o].pc = "returned" =>
         /\ ops[o].resp = [t |-> "bytes", png |-> ops[o].request]
         /\ PathName(ops[o].result) \in DOMAIN files
         /\ files[PathName(ops[o].result)].data = ops[o].resp
    /\ \A o, q \in OpIds :
         (o # q /\ ops[o].pc = "returned" /\ ops[q].pc = "returned")
            => ops[o].result # ops[q].result

OneOperationPerStep ==
    /\ \A o, q \in OpIds : (o # q /\ ops'[o] # ops[o]) => ops'[q] = ops[q]
    /\ \A o \in OpIds :
         /\ ops[o].request # None => ops'[o].request = ops[o].request
         /\ ops[o].pc \in {"returned", "raised"} => ops'[o] = ops[o]

C8_Independence == []Independent /\ [][OneOperationPerStep]_vars

\* two operations were in flight together and the one called later has
\* returned while the one called first is still suspended at its await
C8_Witness ==
    /\ ops[1].pc = "awaiting"
    /\ ops[2].pc = "returned"
    /\ ops[1].request # ops[2].request

(***************************************************************************)
(* C9 as stated: with an empty input list no operation fails during        *)
(* formatting; it makes its one renderer call with an empty entry          *)
(* sequence and returns an image handle if the renderer succeeds.          *)
(***************************************************************************)
EmptyInput(o) == Started(o) /\ InputList(o) = << >>

CallsWithNoEntries(o) ==
    /\ ops[o].request # None
    /\ ops[o].calls = 1
    /\ RequestEntries(o) = << >>

C10_NoOrphanFiles == DOMAIN files = ReturnedNames

====
